---- MODULE Spec2Model ----
(***************************************************************************)
(* The data-ingestion pipeline of HERa: the three pipeline drivers         *)
(* (startLegalInfoCrawler, startClinicCrawler, generateClinicData), the    *)
(* rate-limited queue they share per module, the retry wrapper, the merge  *)
(* of the source partials and the AI enrichment.                           *)
(***************************************************************************)
EXTENDS Integers, Sequences, FiniteSets, TLC

(***************************************************************************)
(* Bounds of the model.                                                    *)
(***************************************************************************)
\* the `states` array of each driver holds 50 names; the model iterates NumStates of them
NumStates == 2
\* number of records the generation prompt asks for (10 in the code), scaled
BatchSize == 3
\* granularity of the clock, in ms
TickMs == 2500
\* clinics fetchClinicsFromAPI may return for one state
MaxClinics == 2

States == 1..NumStates
\* two calls of one driver may be in progress in the same process
Runs == {1, 2}
Drivers == {"legal", "clinic", "generate"}
ClinicNames == {"n1", "n2"}

Min(a, b) == IF a < b THEN a ELSE b

RECURSIVE SeqsUpTo(_, _)
SeqsUpTo(S, n) ==
    IF n = 0 THEN {<<>>}
    ELSE LET shorter == SeqsUpTo(S, n - 1)
         IN  shorter \cup {Append(q, x) : q \in {p \in shorter : Len(p) = n - 1}, x \in S}

VARIABLES
    driver,      \* which pipeline driver the admin endpoints have called
    runPc,       \* per call of the driver: where its `for (const state of states)` loop stands
    runIdx,      \* per call: index into `states` of the next state to submit
    order,       \* per call: the states whose processing has started, in order
    outcome,     \* per call and state: PENDING, DONE or FAILED
    taskPc,      \* per call: the step its current per-state task is at
    taskFound,   \* per call: what the task's existence lookup returned
    qPending,    \* the queue's count of running tasks
    qQueue,      \* the queue's waiting tasks (the calls that submitted them)
    timer,       \* ms since the previous task start, saturating at the interval
    lastGap,     \* value of timer at the latest task start
    legalRows,   \* legal_info table: number of rows per state
    clinicList,  \* per call: the clinics of the current state still to store
    clinicRows,  \* clinics table: number of rows per clinic name
    attempt,     \* retryOperation's loop variable in generateClinicData
    recIdx,      \* index of the record of the batch being validated
    successCount, \* successCount of the current attempt
    batchInserted, \* rows the current batch has inserted
    invalidCount, \* records of the current batch that failed validation
    genRows,     \* rows generateClinicData inserted per state in this run
    calls,       \* completion calls made per state in this run
    opFails,     \* retryOperation on its own: the operation fails this many times, then succeeds
    maxAtt,      \* retryOperation's maxAttempts argument
    rAttempt,    \* retryOperation's loop variable
    invoked,     \* invocations of the operation so far
    rPc,         \* where retryOperation stands
    rThrown,     \* what retryOperation threw: k for the error of the k-th invocation,
                 \* -1 for its own 'All retry attempts failed', 0 for nothing
    dPc,         \* one legal-info task with its data: the step it is at
    partial,     \* per source client: the lists it has extracted so far
    failedSources, \* the source clients whose fetch threw (they return {})
    newsRaw,     \* scrapeNewsArticles: the articles pushed so far
    newsError,   \* scrapeNewsArticles: one of its fetches threw
    ai,          \* the completion service's answer
    merged,      \* the record passed to generateAIEnhancedLegalInfo
    enriched,    \* the record generateAIEnhancedLegalInfo returned
    row,         \* the legal_info row of the state
    cPc,         \* one clinic task with its data: the step it is at
    cState,      \* the state the clinic task is for
    clinicsFound, \* fetchClinicsFromAPI: the clinics array
    toStore,     \* the part of clinicData the store loop has not reached
    clinicTable, \* the rows of the clinics table
    notYetPushed, \* listing elements whose clinic is pushed only after the lists are copied
    invocations, \* per source client: how often pRetry has invoked it for the task
    clientPc,    \* per source client: where its pRetry call stands
    clientResult, \* per source client: what its pRetry call resolved with
    endpoint,    \* per call: the kind of admin endpoint that made it
    response,    \* per call: the HTTP response the endpoint has sent
    sourcesResolved \* per call: how many source-client calls of its task have resolved

qVars == <<qPending, qQueue, timer, lastGap>>
retryVars == <<opFails, maxAtt, rAttempt, invoked, rPc, rThrown>>
dataVars == <<dPc, partial, failedSources, newsRaw, newsError, ai, merged, enriched, row>>
clinicDataVars == <<cPc, cState, clinicsFound, toStore, clinicTable, notYetPushed>>
pRetryVars == <<invocations, clientPc, clientResult>>
otherVars == <<retryVars, dataVars, clinicDataVars, pRetryVars>>
epVars == <<endpoint, response>>
runVars == <<driver, otherVars, epVars, sourcesResolved, runPc, runIdx, order, outcome, taskPc, taskFound>>
dbVars == <<legalRows, clinicList, clinicRows>>
genVars == <<attempt, recIdx, successCount, batchInserted, invalidCount, genRows, calls>>
runVarsButTaskPc == <<driver, otherVars, epVars, sourcesResolved, runPc, runIdx, order, outcome, taskFound>>
vars == <<runVars, qVars, dbVars, genVars>>
driverVars == <<epVars, sourcesResolved, runPc, runIdx, order, outcome, taskPc, taskFound, qVars, dbVars, genVars>>

(***************************************************************************)
(* The data of one legal-info task: the partials of the source clients,    *)
(* their merge, the AI enrichment and the upsert.  Texts, URLs and dates    *)
(* are drawn from small sets; healthDeptInfo, which no list operation      *)
(* touches, is left out.                                                   *)
(***************************************************************************)
\* scraped items, AI items, failures: how many the task meets in all
MaxEntries == 2

Sources == {"pp", "aclu", "guttmacher", "stateGov", "kff", "nwlc", "stateResources"}
\* scrapeStateResources does no I/O; the other clients fetch a page and may fail
FetchingSources == Sources \ {"stateResources"}

Strs == {"A", "B", "C"}
RequirementText == "D is required"
Dates == {1, 2}
\* a date text that new Date() cannot parse: its getTime() is NaN
Unparseable == 0
Updates == {[date |-> d, description |-> "update"] : d \in Dates \cup {Unparseable}}
Docs == {[url |-> "u1", title |-> "t1"], [url |-> "u1", title |-> "t2"],
         [url |-> "u2", title |-> "t1"]}
Articles == {[url |-> "n1", date |-> 1], [url |-> "n1", date |-> 2], [url |-> "n2", date |-> 2],
             [url |-> "n3", date |-> Unparseable]}
AiStrs == {"A", "X"}
AiContacts == {[name |-> "National Abortion Federation Hotline", phone |-> "1-800-772-9100"],
               [name |-> "AI hotline", phone |-> "1-800-000-0000"]}
ListFields == {"restrictions", "requirements", "recentUpdates", "sourceUrls",
               "emergencyContacts", "officialDocuments", "legalResources", "newsArticles"}
AiListFields == {"restrictions", "requirements", "recentUpdates", "newsArticles",
                 "emergencyContacts", "officialDocuments"}

Range(s) == {s[i] : i \in 1..Len(s)}

RECURSIVE Concat(_)
Concat(ss) == IF ss = <<>> THEN <<>> ELSE Head(ss) \o Concat(Tail(ss))

\* [...new Set(list)]: the first occurrence of each value, in order
RECURSIVE DedupMutant(_)
DedupMutant(s) ==
    IF s = <<>> THEN <<>>
    ELSE LET rest == DedupMutant(Tail(s))
         IN  IF Head(s) \in Range(rest) THEN rest ELSE <<Head(s)>> \o rest
RECURSIVE Dedup(_)
Dedup(s) ==
    IF s = <<>> THEN <<>>
    ELSE LET init == Dedup(SubSeq(s, 1, Len(s) - 1))
             last == s[Len(s)]
         IN  IF last \in Range(init) THEN init ELSE Append(init, last)

\* (a, b) => new Date(b.date).getTime() - new Date(a.date).getTime(); the
\* difference is NaN when either date is unparseable, and sort takes a NaN from
\* its comparator as +0: the two entries compare as equal
compareDates(a, b) ==
    IF a.date = Unparseable \/ b.date = Unparseable THEN 0 ELSE b.date - a.date

\* list.sort(compareDates): a stable sort, entries that compare as equal keep
\* their order
RECURSIVE InsertByDate(_, _)
InsertByDate(x, s) ==
    IF s = <<>> THEN <<x>>
    ELSE IF compareDates(Head(s), x) <= 0 THEN <<Head(s)>> \o InsertByDate(x, Tail(s))
    ELSE <<x>> \o s
RECURSIVE SortByDate(_)
SortByDate(s) ==
    IF s = <<>> THEN <<>>
    ELSE InsertByDate(s[Len(s)], SortByDate(SubSeq(s, 1, Len(s) - 1)))

\* the state the task is for
theState == "California"
EmptyPartial == [restrictions |-> <<>>, requirements |-> <<>>, recentUpdates |-> <<>>,
                 officialDocuments |-> <<>>]
EmptyRecord == [restrictions |-> <<>>, requirements |-> <<>>, recentUpdates |-> <<>>,
                sourceUrls |-> <<>>, emergencyContacts |-> <<>>, officialDocuments |-> <<>>,
                legalResources |-> <<>>, newsArticles |-> <<>>, additionalNotes |-> "",
                stateWebsite |-> "", state |-> ""]
\* a field of the parsed answer: absent (or null), a list of items, a string, or
\* some other value (a number, a plain object) that cannot be spread
Absent == [kind |-> "absent", items |-> <<>>, text |-> ""]
NoAnswer == [outcome |-> "json", additionalNotes |-> "",
             lists |-> [f \in AiListFields |-> Absent]]
NoRow == [present |-> FALSE, rec |-> EmptyRecord, effectiveDate |-> "never",
          lastVerified |-> "never", inserts |-> 0, updates |-> 0]
OldRow == [present |-> TRUE,
           rec |-> [EmptyRecord EXCEPT !.restrictions = <<"old">>, !.state = theState],
           effectiveDate |-> "before", lastVerified |-> "before", inserts |-> 0, updates |-> 0]

\* the canned record of a state, which only California has
LegalFallbackStates == {"California"}
fallbackLegalInfo(s) ==
    [restrictions |-> <<"No restrictions on abortion before viability",
                        "Post-viability abortions allowed for life/health of the mother">>,
     requirements |-> <<"Parental notification not required for minors",
                        "No mandatory waiting period">>,
     recentUpdates |-> <<[date |-> 2, description |->
                            "California strengthened abortion access protections"]>>,
     sourceUrls |-> <<"https://www.plannedparenthood.org/learn/abortion/abortion-laws">>,
     emergencyContacts |-> <<[name |-> "ACCESS Reproductive Justice",
                              phone |-> "1-800-376-4636"]>>,
     officialDocuments |-> <<[url |-> "leginfo HSC 123460", title |->
                                "California Health and Safety Code Section 123460-123468"],
                             [url |-> "leginfo HSC 2.5", title |->
                                "California Reproductive Privacy Act"],
                             [url |-> "cdph Abortion-Access", title |->
                                "Abortion Access and Safe Haven Laws"]>>,
     legalResources |-> <<"ca-fac", "find-a-provider", "reprolegalhelpline">>,
     newsArticles |-> <<>>,
     additionalNotes |-> "California has some of the strongest abortion protections",
     stateWebsite |-> "",
     state |-> s]

DataIdle ==
    /\ dPc = "off"
    /\ partial = [src \in Sources |-> EmptyPartial]
    /\ failedSources = {}
    /\ newsRaw = <<>>
    /\ newsError = FALSE
    /\ ai = NoAnswer
    /\ merged = EmptyRecord
    /\ enriched = EmptyRecord
    /\ row = NoRow
    /\ cPc = "off"
    /\ cState = ""
    /\ clinicsFound = <<>>
    /\ toStore = <<>>
    /\ clinicTable = <<>>
    /\ notYetPushed = 0

\* what the task has met so far
RECURSIVE SumLen(_, _)
SumLen(f, S) ==
    IF S = {} THEN 0
    ELSE LET x == CHOOSE y \in S : TRUE IN Len(f[x]) + SumLen(f, S \ {x})
PartialLen(src) ==
    Len(partial[src].restrictions) + Len(partial[src].requirements)
        + Len(partial[src].recentUpdates) + Len(partial[src].officialDocuments)
RECURSIVE ScrapedLen(_)
ScrapedLen(S) ==
    IF S = {} THEN 0
    ELSE LET x == CHOOSE y \in S : TRUE IN PartialLen(x) + ScrapedLen(S \ {x})
AiLen ==
    SumLen([f \in AiListFields |-> ai.lists[f].items], AiListFields)
        + Cardinality({f \in AiListFields : ai.lists[f].kind \in {"string", "other"}})
        + (IF ai.additionalNotes = "" THEN 0 ELSE 1)
Met == ScrapedLen(Sources) + Cardinality(failedSources) + Len(newsRaw)
           + (IF newsError THEN 1 ELSE 0) + AiLen

\* the sources whose result names a source URL
UrlSources == {"pp", "aclu", "guttmacher", "kff", "nwlc"}
SourceUrl(src) == src
stateGovUrl == "stateGov"
\* scrapeStateResources: the URLs of the static list, then those of the state's
\* own resources
StaticResources == <<"statebarfoundation", "aclu", "naf-hotline", "reprolegalhelpline",
                     "iwrising", "womenslawproject", "accessrj", "abortion.ca.gov">>
hotlines == <<[name |-> "National Abortion Federation Hotline", phone |-> "1-800-772-9100"],
              [name |-> "Planned Parenthood Direct Support", phone |-> "1-800-230-PLAN"]>>

\* (data.f || []) for the object a source client returned; a client that failed
\* returned {}
FieldMutant(src, f) ==
    IF failedSources # {} THEN <<>>
    ELSE IF f = "sourceUrls" THEN (IF src \in UrlSources THEN <<SourceUrl(src)>> ELSE <<>>)
    ELSE IF f = "legalResources" THEN (IF src = "stateResources" THEN StaticResources ELSE <<>>)
    ELSE partial[src][f]
Field(src, f) ==
    IF src \in failedSources THEN <<>>
    ELSE IF f = "sourceUrls" THEN (IF src \in UrlSources THEN <<SourceUrl(src)>> ELSE <<>>)
    ELSE IF f = "legalResources" THEN (IF src = "stateResources" THEN StaticResources ELSE <<>>)
    ELSE partial[src][f]

\* the argument startLegalInfoCrawler builds for generateAIEnhancedLegalInfo
mergedData ==
    [restrictions |-> Dedup(Concat(<<Field("pp", "restrictions"), Field("aclu", "restrictions"),
                                     Field("guttmacher", "restrictions"),
                                     Field("kff", "restrictions"), Field("nwlc", "restrictions")>>)),
     requirements |-> Dedup(Concat(<<Field("pp", "requirements"),
                                     Field("guttmacher", "requirements"),
                                     Field("kff", "requirements"), Field("nwlc", "requirements")>>)),
     recentUpdates |-> SortByDate(Concat(<<Field("pp", "recentUpdates"),
                                           Field("kff", "recentUpdates"),
                                           Field("nwlc", "recentUpdates")>>)),
     sourceUrls |-> Dedup(Concat(<<Field("pp", "sourceUrls"), Field("aclu", "sourceUrls"),
                                   Field("guttmacher", "sourceUrls"),
                                   Field("kff", "sourceUrls"), Field("nwlc", "sourceUrls")>>)),
     emergencyContacts |-> hotlines,
     officialDocuments |-> Field("stateGov", "officialDocuments")
                               \o Field("kff", "officialDocuments"),
     legalResources |-> Concat(<<Field("stateResources", "legalResources"),
                                 Field("stateGov", "legalResources"),
                                 Field("kff", "legalResources")>>),
     newsArticles |-> <<>>,
     additionalNotes |-> "",
     stateWebsite |-> IF "stateGov" \in failedSources THEN "" ELSE stateGovUrl,
     state |-> theState]

\* Array.from(new Map(list.map(a => [a.url, a])).values()): one article per URL,
\* at the place of the first with that URL and with the content of the last
LastWithUrl(s, u) == s[CHOOSE i \in 1..Len(s) : s[i].url = u /\ \A j \in (i+1)..Len(s) : s[j].url # u]
RECURSIVE UniqueByUrl(_, _)
UniqueByUrl(s, n) ==
    IF n = 0 THEN <<>>
    ELSE LET init == UniqueByUrl(s, n - 1)
         IN  IF \E i \in 1..(n-1) : s[i].url = s[n].url THEN init
             ELSE Append(init, LastWithUrl(s, s[n].url))

scrapeNewsArticles ==
    IF newsError THEN newsRaw ELSE SortByDate(UniqueByUrl(newsRaw, Len(newsRaw)))

AiTexts == {"no"}
Chars(text) == IF text = "no" THEN <<"n", "o">> ELSE <<>>
\* ...(value || []): nothing for an absent value, the items of a list, the
\* characters of a string; spreading any other value throws a TypeError
SpreadThrows(v) == v.kind = "other"
Spread(v) == IF v.kind = "string" THEN Chars(v.text) ELSE v.items

\* one combined list of the returned record
combineMutant(fromAi, scraped) == fromAi
combine(fromAi, scraped) == fromAi \o scraped

generateAIEnhancedLegalInfo(scrapedData) ==
    IF \/ ai.outcome # "json"
       \/ \E f \in AiListFields : SpreadThrows(ai.lists[f])
    THEN scrapedData
    ELSE [scrapedData EXCEPT
            !.restrictions = combine(Spread(ai.lists["restrictions"]), @),
            !.requirements = combine(Spread(ai.lists["requirements"]), @),
            !.recentUpdates = SortByDate(combine(Spread(ai.lists["recentUpdates"]), @)),
            !.newsArticles = SortByDate(scrapeNewsArticles \o Spread(ai.lists["newsArticles"])),
            !.additionalNotes = IF ai.additionalNotes # "" THEN ai.additionalNotes ELSE @,
            !.emergencyContacts = combine(Spread(ai.lists["emergencyContacts"]), @),
            !.officialDocuments = combine(Spread(ai.lists["officialDocuments"]), @)]

(***************************************************************************)
(* The queue: new PQueue({ concurrency: 1, interval: 5000 | 8000 }).       *)
(* The options name no intervalCap, which therefore keeps the library's     *)
(* default of Infinity; with an infinite intervalCap PQueue ignores the     *)
(* interval and only the concurrency limit decides whether a task starts.  *)
(***************************************************************************)
concurrency == 1
legalInterval == 5000
clinicInterval == 8000
interval == IF driver = "clinic" THEN clinicInterval ELSE legalInterval
intervalCapGiven == FALSE
isIntervalIgnored == ~intervalCapGiven \/ interval = 0
doesIntervalAllowAnother == isIntervalIgnored \/ timer >= interval
doesConcurrentAllowAnotherMutant(pending) == TRUE
doesConcurrentAllowAnotherStrict(pending) == pending < concurrency - 1
doesConcurrentAllowAnother(pending) == pending < concurrency

FirstStep == IF driver = "legal" THEN "fetch" ELSE "fetchClinics"
RunningPcs == {"fetch", "enrich", "find", "write", "fetchClinics", "store", "insert", "settle"}
Running == {r \in Runs : taskPc[r] \in RunningPcs}

\* the driver's loop after a state: the task's own try/catch (or the loop's, in
\* generateClinicData) has swallowed any error, so the loop goes to the next state
nextIndexMutant(idx, failed) == IF failed THEN NumStates + 1 ELSE idx + 1
nextIndex(idx, failed) == idx + 1

\* the state a call's current task is about
TaskState(r) == runIdx[r]

\* how a call is made: by a start endpoint, which does not await the promise,
\* or by a populate or generate endpoint, which does
EndpointKinds == IF driver = "generate" THEN {"populate"} ELSE {"start", "populate"}
NoResponse == [status |-> "none", count |-> 0, logged |-> ""]

DriversIdle ==
    /\ endpoint = [r \in Runs |-> "none"]
    /\ response = [r \in Runs |-> NoResponse]
    /\ sourcesResolved = [r \in Runs |-> 0]
    /\ runPc = [r \in Runs |-> "notCalled"]
    /\ runIdx = [r \in Runs |-> 1]
    /\ order = [r \in Runs |-> <<>>]
    /\ outcome = [r \in Runs |-> [s \in States |-> "PENDING"]]
    /\ taskPc = [r \in Runs |-> "none"]
    /\ taskFound = [r \in Runs |-> FALSE]
    /\ qPending = 0
    /\ qQueue = <<>>
    /\ timer = interval
    /\ lastGap = interval
    /\ legalRows = [s \in States |-> 0]
    /\ clinicList = [r \in Runs |-> <<>>]
    /\ clinicRows = [n \in ClinicNames |-> 0]
    /\ attempt = 0
    /\ recIdx = 0
    /\ successCount = 0
    /\ batchInserted = 0
    /\ invalidCount = 0
    /\ genRows = [s \in States |-> 0]
    /\ calls = [s \in States |-> 0]

PRetryIdle ==
    /\ invocations = [src \in Sources |-> 0]
    /\ clientPc = [src \in Sources |-> "off"]
    /\ clientResult = [src \in Sources |-> "none"]

RetryIdle ==
    /\ opFails = 0
    /\ maxAtt = 0
    /\ rAttempt = 0
    /\ invoked = 0
    /\ rPc = "off"
    /\ rThrown = 0

Init ==
    /\ driver \in Drivers
    /\ DriversIdle
    /\ PRetryIdle
    /\ RetryIdle
    /\ DataIdle

\* an admin endpoint calls the driver (a second call may arrive while the first runs)
Call(r) ==
    /\ runPc[r] = "notCalled"
    /\ driver = "generate" => r = 1
    /\ runPc' = [runPc EXCEPT ![r] = "loop"]
    /\ \E kind \in EndpointKinds : endpoint' = [endpoint EXCEPT ![r] = kind]
    /\ UNCHANGED <<driver, otherVars, response, sourcesResolved, runIdx, order, outcome, taskPc, taskFound, qVars, dbVars, genVars>>

\* startXCrawler().then(...).catch(...); return res.json(...): the handler of a
\* start endpoint answers when the call has returned its promise, which is at
\* the call's first await
respondsAtOnceMutant(kind) == FALSE
respondsAtOnce(kind) == kind = "start"

\* `await queue.add(async () => {...})`: the task is enqueued and started at once
\* when the queue allows it; the caller waits for the task to settle
Add(r) ==
    /\ driver \in {"legal", "clinic"}
    /\ runPc[r] = "loop"
    /\ runIdx[r] <= NumStates
    /\ runPc' = [runPc EXCEPT ![r] = "awaitAdd"]
    /\ response' = IF respondsAtOnce(endpoint[r]) /\ response[r] = NoResponse
                   THEN [response EXCEPT ![r] = [status |-> "started", count |-> 0,
                                                 logged |-> ""]]
                   ELSE response
    /\ IF doesIntervalAllowAnother /\ doesConcurrentAllowAnother(qPending)
       THEN /\ taskPc' = [taskPc EXCEPT ![r] = FirstStep]
            /\ order' = [order EXCEPT ![r] = Append(@, TaskState(r))]
            /\ qPending' = qPending + 1
            /\ lastGap' = timer
            /\ timer' = 0
            /\ UNCHANGED qQueue
       ELSE /\ taskPc' = [taskPc EXCEPT ![r] = "queued"]
            /\ qQueue' = Append(qQueue, r)
            /\ UNCHANGED <<order, qPending, lastGap, timer>>
    /\ UNCHANGED <<driver, otherVars, endpoint, sourcesResolved, runIdx, outcome, taskFound, dbVars, genVars>>

\* the queue starts the task at the head of its waiting list, if it may
StartNext(pending, settled) ==
    IF qQueue # <<>> /\ doesIntervalAllowAnother /\ doesConcurrentAllowAnother(pending)
    THEN /\ taskPc' = [taskPc EXCEPT ![settled] = "none", ![Head(qQueue)] = FirstStep]
         /\ order' = [order EXCEPT ![Head(qQueue)] = Append(@, TaskState(Head(qQueue)))]
         /\ qQueue' = Tail(qQueue)
         /\ qPending' = pending + 1
         /\ lastGap' = timer
         /\ timer' = 0
    ELSE /\ taskPc' = [taskPc EXCEPT ![settled] = "none"]
         /\ qPending' = pending
         /\ UNCHANGED <<order, qQueue, lastGap, timer>>

\* the per-state work is wrapped in try/catch: what fails inside is logged, and
\* the promise of the task (of the loop round in generateClinicData) fulfils
taskSettlesAsMutant(taskFailed) == IF taskFailed THEN "rejected" ELSE "fulfilled"
taskSettlesAs(taskFailed) == "fulfilled"

\* the task's promise settles: the queue counts it out, starts the next waiting
\* task and, when nothing is left, tells the callers waiting in onIdle(); the
\* caller of add() goes on to the next state
Settle(r) ==
    /\ taskPc[r] = "settle"
    /\ StartNext(qPending - 1, r)
    /\ runPc' = [q \in Runs |->
                   IF q = r
                   THEN (IF taskSettlesAs(outcome[r][TaskState(r)] = "FAILED") = "rejected"
                         THEN "rejected" ELSE "loop")
                   ELSE IF runPc[q] = "onIdle" /\ qQueue = <<>> /\ qPending - 1 = 0
                        THEN "resolved" ELSE runPc[q]]
    /\ runIdx' = [runIdx EXCEPT ![r] = nextIndex(@, outcome[r][TaskState(r)] = "FAILED")]
    /\ UNCHANGED <<driver, otherVars, epVars, sourcesResolved, outcome, taskFound, dbVars, genVars>>

\* after the loop: `await queue.onIdle()`
OnIdle(r) ==
    /\ driver \in {"legal", "clinic"}
    /\ runPc[r] = "loop"
    /\ runIdx[r] > NumStates
    /\ runPc' = [runPc EXCEPT ![r] =
                   IF qPending = 0 /\ qQueue = <<>> THEN "resolved" ELSE "onIdle"]
    /\ UNCHANGED <<driver, otherVars, epVars, sourcesResolved, runIdx, order, outcome, taskPc, taskFound, qVars, dbVars, genVars>>

(***************************************************************************)
(* The per-state task of startLegalInfoCrawler.                            *)
(***************************************************************************)
\* the call of one source client resolves: with its partial, or with {} when
\* its fetch failed
SourceResolves(r) ==
    /\ taskPc[r] = "fetch"
    /\ sourcesResolved[r] < Cardinality(Sources)
    /\ sourcesResolved' = [sourcesResolved EXCEPT ![r] = @ + 1]
    /\ UNCHANGED <<driver, otherVars, epVars, runPc, runIdx, order, outcome, taskPc, taskFound,
                   qVars, dbVars, genVars>>

\* await Promise.all([...]) over the seven source clients
allResolvedMutant(n) == n >= 1
allResolved(n) == n = Cardinality(Sources)

\* Promise.all over the seven source clients; each client catches its own
\* errors and returns {}, so the join never rejects.  The task then builds the
\* merged record and calls generateAIEnhancedLegalInfo with it
LegalFetch(r) ==
    /\ taskPc[r] = "fetch"
    /\ allResolved(sourcesResolved[r])
    /\ taskPc' = [taskPc EXCEPT ![r] = "enrich"]
    /\ sourcesResolved' = [sourcesResolved EXCEPT ![r] = 0]
    /\ UNCHANGED <<driver, otherVars, epVars, runPc, runIdx, order, outcome, taskFound, qVars, dbVars, genVars>>

\* generateAIEnhancedLegalInfo: returns the enriched record, or its input when
\* anything inside it throws
LegalEnrich(r) ==
    /\ taskPc[r] = "enrich"
    /\ taskPc' = [taskPc EXCEPT ![r] = "find"]
    /\ UNCHANGED <<driver, otherVars, epVars, sourcesResolved, runPc, runIdx, order, outcome, taskFound, qVars, dbVars, genVars>>

\* db.query.legalInfo.findFirst; a storage error is caught at the task boundary
LegalFind(r) ==
    /\ taskPc[r] = "find"
    /\ \E ok \in BOOLEAN :
         IF ok
         THEN /\ taskFound' = [taskFound EXCEPT ![r] = legalRows[TaskState(r)] > 0]
              /\ taskPc' = [taskPc EXCEPT ![r] = "write"]
              /\ UNCHANGED outcome
         ELSE /\ outcome' = [outcome EXCEPT ![r][TaskState(r)] = "FAILED"]
              /\ taskPc' = [taskPc EXCEPT ![r] = "settle"]
              /\ UNCHANGED taskFound
    /\ UNCHANGED <<driver, otherVars, epVars, sourcesResolved, runPc, runIdx, order, qVars, dbVars, genVars>>

\* db.update(...) when a row was found, db.insert(...) otherwise; legal_info.state
\* is unique, so an insert for a state that has a row throws
LegalWrite(r) ==
    /\ taskPc[r] = "write"
    /\ \E ok \in BOOLEAN :
         LET s == TaskState(r)
             inserts == ~taskFound[r]
             done == ok /\ (inserts => legalRows[s] = 0)
         IN  /\ legalRows' = IF done /\ inserts THEN [legalRows EXCEPT ![s] = @ + 1]
                             ELSE legalRows
             /\ outcome' = [outcome EXCEPT ![r][s] = IF done THEN "DONE" ELSE "FAILED"]
    /\ taskPc' = [taskPc EXCEPT ![r] = "settle"]
    /\ UNCHANGED <<driver, otherVars, epVars, sourcesResolved, runPc, runIdx, order, taskFound, qVars, clinicList, clinicRows, genVars>>

(***************************************************************************)
(* The per-state task of startClinicCrawler.                               *)
(***************************************************************************)
\* states that have an entry in fallbackClinics, and the names of its clinics
FallbackStates == {1}
fallbackClinics(s) == IF s \in FallbackStates THEN <<"n1", "n2">> ELSE <<>>

\* fetchClinicsFromAPI (which catches its own errors and then returns []), the
\* fallback substitution and the early return when there is nothing to store
ClinicFetch(r) ==
    /\ taskPc[r] = "fetchClinics"
    /\ \E fetched \in SeqsUpTo(ClinicNames, MaxClinics) :
         LET s == TaskState(r)
             clinicData == IF Len(fetched) = 0 /\ s \in FallbackStates
                           THEN fallbackClinics(s) ELSE fetched
         IN  IF Len(clinicData) = 0
             THEN /\ taskPc' = [taskPc EXCEPT ![r] = "settle"]
                  /\ outcome' = [outcome EXCEPT ![r][s] = "DONE"]
                  /\ UNCHANGED clinicList
             ELSE /\ taskPc' = [taskPc EXCEPT ![r] = "store"]
                  /\ clinicList' = [clinicList EXCEPT ![r] = clinicData]
                  /\ UNCHANGED outcome
    /\ UNCHANGED <<driver, otherVars, epVars, sourcesResolved, runPc, runIdx, order, taskFound, qVars, legalRows, clinicRows, genVars>>

\* db.query.clinics.findMany by name; an error is caught inside the loop and the
\* loop goes on with the next clinic
ClinicFind(r) ==
    /\ taskPc[r] = "store"
    /\ clinicList[r] # <<>>
    /\ \E ok \in BOOLEAN :
         IF ok
         THEN /\ taskFound' = [taskFound EXCEPT ![r] = clinicRows[Head(clinicList[r])] > 0]
              /\ taskPc' = [taskPc EXCEPT ![r] = "insert"]
              /\ UNCHANGED clinicList
         ELSE /\ clinicList' = [clinicList EXCEPT ![r] = Tail(@)]
              /\ UNCHANGED <<taskFound, taskPc>>
    /\ UNCHANGED <<driver, otherVars, epVars, sourcesResolved, runPc, runIdx, order, outcome, qVars, legalRows, clinicRows, genVars>>

\* if (existingClinic.length === 0)
insertsClinicMutant(found) == TRUE
insertsClinic(found) == ~found

\* db.insert(clinics) when no row has the name, "already exists" otherwise
ClinicInsert(r) ==
    /\ taskPc[r] = "insert"
    /\ \E ok \in BOOLEAN :
         clinicRows' = IF insertsClinic(taskFound[r]) /\ ok
                       THEN [clinicRows EXCEPT ![Head(clinicList[r])] = @ + 1]
                       ELSE clinicRows
    /\ clinicList' = [clinicList EXCEPT ![r] = Tail(@)]
    /\ taskPc' = [taskPc EXCEPT ![r] = "store"]
    /\ UNCHANGED <<driver, otherVars, epVars, sourcesResolved, runPc, runIdx, order, outcome, taskFound, qVars, legalRows, genVars>>

\* the loop over clinicData is over: the task returns
ClinicStored(r) ==
    /\ taskPc[r] = "store"
    /\ clinicList[r] = <<>>
    /\ taskPc' = [taskPc EXCEPT ![r] = "settle"]
    /\ outcome' = [outcome EXCEPT ![r][TaskState(r)] = "DONE"]
    /\ UNCHANGED <<driver, otherVars, epVars, sourcesResolved, runPc, runIdx, order, taskFound, qVars, dbVars, genVars>>

(***************************************************************************)
(* retryOperation and generateClinicData.                                  *)
(***************************************************************************)
\* `if (attempt === maxAttempts) throw error`
rethrowsMutant(att, maxAttempts) == att >= maxAttempts - 1
rethrows(att, maxAttempts) == att = maxAttempts

\* retryOperation after a failed attempt: rethrow the error on the last attempt,
\* else wait and go round the loop; the loop ends when attempt exceeds maxAttempts
\* and 'All retry attempts failed' is thrown
retryStepMutant(att, maxAttempts) ==
    IF att > maxAttempts THEN "rethrow" ELSE "retry"
retryStep(att, maxAttempts) ==
    IF rethrows(att, maxAttempts) THEN "rethrow"
    ELSE IF att + 1 <= maxAttempts THEN "retry"
    ELSE "exhausted"

\* the default value of retryOperation's maxAttempts, which generateClinicData uses
defaultMaxAttempts == 3

\* what the completion service can answer to generateStateClinicData
Responses == {"apiError", "noArray", "badJson", "wrongCount", "array"}

\* generateStateClinicData: throws unless the answer holds a JSON array of
\* exactly the requested number of entries
generateStateClinicData(resp) == IF resp = "array" THEN "data" ELSE "throw"

\* an iteration of `for (const state of states)` begins: retryOperation starts
GenBegin ==
    /\ driver = "generate"
    /\ runPc[1] = "loop"
    /\ runIdx[1] <= NumStates
    /\ runPc' = [runPc EXCEPT ![1] = "inState"]
    /\ order' = [order EXCEPT ![1] = Append(@, runIdx[1])]
    /\ taskPc' = [taskPc EXCEPT ![1] = "call"]
    /\ attempt' = 1
    /\ UNCHANGED <<driver, otherVars, epVars, sourcesResolved, runIdx, outcome, taskFound, qVars, dbVars,
                   recIdx, successCount, batchInserted, invalidCount, genRows, calls>>

\* one invocation of the operation: the completion call and the checks on its answer
GenCompletion ==
    /\ taskPc[1] = "call"
    /\ calls' = [calls EXCEPT ![runIdx[1]] = @ + 1]
    /\ \E resp \in Responses :
         taskPc' = [taskPc EXCEPT ![1] =
                      IF generateStateClinicData(resp) = "data" THEN "records"
                      ELSE "attemptFailed"]
    /\ recIdx' = 1
    /\ UNCHANGED <<runVarsButTaskPc, qVars, dbVars, attempt, successCount, batchInserted,
                   invalidCount, genRows>>

\* one record of the batch: skipped when it fails validation, inserted otherwise;
\* an insert that throws is caught and the record is not counted
GenRecord ==
    /\ taskPc[1] = "records"
    /\ recIdx <= BatchSize
    /\ \E valid \in BOOLEAN, insertOk \in BOOLEAN :
         LET inserted == valid /\ insertOk
         IN  /\ genRows' = IF inserted THEN [genRows EXCEPT ![runIdx[1]] = @ + 1] ELSE genRows
             /\ successCount' = IF inserted THEN successCount + 1 ELSE successCount
             /\ batchInserted' = IF inserted THEN batchInserted + 1 ELSE batchInserted
             /\ invalidCount' = IF valid THEN invalidCount ELSE invalidCount + 1
    /\ recIdx' = recIdx + 1
    /\ UNCHANGED <<runVars, qVars, dbVars, attempt, calls>>

\* after the loop over the batch: `if (successCount < 10) throw`, else return stateData
GenBatchEnd ==
    /\ taskPc[1] = "records"
    /\ recIdx > BatchSize
    /\ taskPc' = [taskPc EXCEPT ![1] =
                    IF successCount < BatchSize THEN "attemptFailed" ELSE "attemptOk"]
    /\ UNCHANGED <<runVarsButTaskPc, qVars, dbVars, genVars>>

\* retryOperation's catch: rethrow on the last attempt (generateClinicData catches,
\* logs and continues with the next state), else wait and try again
GenRetry ==
    /\ taskPc[1] = "attemptFailed"
    /\ IF retryStep(attempt, defaultMaxAttempts) # "retry"
       THEN /\ outcome' = [outcome EXCEPT ![1][runIdx[1]] = "FAILED"]
            /\ runIdx' = [runIdx EXCEPT ![1] = nextIndex(@, TRUE)]
            /\ runPc' = [runPc EXCEPT ![1] = IF taskSettlesAs(TRUE) = "rejected"
                                             THEN "rejected" ELSE "loop"]
            /\ taskPc' = [taskPc EXCEPT ![1] = "none"]
            /\ attempt' = 0
       ELSE /\ attempt' = attempt + 1
            /\ taskPc' = [taskPc EXCEPT ![1] = "call"]
            /\ UNCHANGED <<outcome, runIdx, runPc>>
    /\ recIdx' = 0
    /\ successCount' = 0
    /\ batchInserted' = 0
    /\ invalidCount' = 0
    /\ UNCHANGED <<driver, otherVars, epVars, sourcesResolved, order, taskFound, qVars, dbVars, genRows, calls>>

\* retryOperation returned: "Successfully added", the delay, the next state
GenSuccess ==
    /\ taskPc[1] = "attemptOk"
    /\ outcome' = [outcome EXCEPT ![1][runIdx[1]] = "DONE"]
    /\ runIdx' = [runIdx EXCEPT ![1] = nextIndex(@, FALSE)]
    /\ runPc' = [runPc EXCEPT ![1] = "loop"]
    /\ taskPc' = [taskPc EXCEPT ![1] = "none"]
    /\ attempt' = 0
    /\ recIdx' = 0
    /\ successCount' = 0
    /\ batchInserted' = 0
    /\ invalidCount' = 0
    /\ UNCHANGED <<driver, otherVars, epVars, sourcesResolved, order, taskFound, qVars, dbVars, genRows, calls>>

\* the loop over the states is over: generateClinicData resolves
GenDone ==
    /\ driver = "generate"
    /\ runPc[1] = "loop"
    /\ runIdx[1] > NumStates
    /\ runPc' = [runPc EXCEPT ![1] = "resolved"]
    /\ UNCHANGED <<driver, otherVars, epVars, sourcesResolved, runIdx, order, outcome, taskPc, taskFound, qVars, dbVars, genVars>>

RECURSIVE SumOver(_, _)
SumOver(f, S) ==
    IF S = {} THEN 0
    ELSE LET x == CHOOSE y \in S : TRUE IN f[x] + SumOver(f, S \ {x})
\* db.query.<table>.findMany().length
TotalRows ==
    IF driver = "legal" THEN SumOver(legalRows, States)
    ELSE IF driver = "clinic" THEN SumOver(clinicRows, ClinicNames)
    ELSE SumOver(genRows, States)

\* `await startLegalInfoCrawler()` (startClinicCrawler, generateClinicData) is over
awaitedMutant(pc) == pc # "notCalled"
awaited(pc) == pc \in {"resolved", "rejected"}

\* the handler of an awaiting endpoint goes on after the call: it reads the
\* table and answers with the count, or answers 500 when the call or the read
\* threw
Respond(r) ==
    /\ endpoint[r] # "none"
    /\ response[r] = NoResponse
    /\ ~respondsAtOnce(endpoint[r])
    /\ awaited(runPc[r])
    /\ \E readOk \in BOOLEAN :
         response' = [response EXCEPT ![r] =
             IF runPc[r] = "rejected"
             THEN [status |-> "error", count |-> 0, logged |-> "call rejected"]
             ELSE IF endpoint[r] = "start"
             THEN [status |-> "started", count |-> 0, logged |-> ""]
             ELSE IF readOk
             THEN [status |-> "ok", count |-> TotalRows, logged |-> ""]
             ELSE [status |-> "error", count |-> 0, logged |-> "findMany failed"]]
    /\ UNCHANGED <<driver, otherVars, endpoint, sourcesResolved, runPc, runIdx, order, outcome, taskPc,
                   taskFound, qVars, dbVars, genVars>>

\* time passes on the queue's clock
Tick ==
    /\ driver \in {"legal", "clinic"}
    /\ timer < interval
    /\ timer' = Min(timer + TickMs, interval)
    /\ UNCHANGED <<runVars, qPending, qQueue, lastGap, dbVars, genVars>>

Next ==
    \/ \E r \in Runs : Call(r)
    \/ \E r \in Runs : Add(r)
    \/ \E r \in Runs : Settle(r)
    \/ \E r \in Runs : OnIdle(r)
    \/ \E r \in Runs : SourceResolves(r)
    \/ \E r \in Runs : LegalFetch(r)
    \/ \E r \in Runs : LegalEnrich(r)
    \/ \E r \in Runs : LegalFind(r)
    \/ \E r \in Runs : LegalWrite(r)
    \/ \E r \in Runs : ClinicFetch(r)
    \/ \E r \in Runs : ClinicFind(r)
    \/ \E r \in Runs : ClinicInsert(r)
    \/ \E r \in Runs : ClinicStored(r)
    \/ GenBegin
    \/ GenCompletion
    \/ GenRecord
    \/ GenBatchEnd
    \/ GenRetry
    \/ GenSuccess
    \/ GenDone
    \/ \E r \in Runs : Respond(r)

Spec == Init /\ [][Next]_vars

\* the same drivers with a clock
TimedSpec == Init /\ [][Next \/ Tick]_vars

(***************************************************************************)
(* One legal-info task with its data: the source clients extract their     *)
(* lists, the task merges them, generateAIEnhancedLegalInfo scrapes the     *)
(* news, asks the completion service and combines, and the task upserts    *)
(* the row of the state.                                                   *)
(***************************************************************************)
DataInit ==
    /\ driver = "none"
    /\ cPc = "off"
    /\ cState = ""
    /\ clinicsFound = <<>>
    /\ toStore = <<>>
    /\ clinicTable = <<>>
    /\ notYetPushed = 0
    /\ DriversIdle
    /\ PRetryIdle
    /\ RetryIdle
    /\ dPc = "scrape"
    /\ partial = [src \in Sources |-> EmptyPartial]
    /\ failedSources = {}
    /\ newsRaw = <<>>
    /\ newsError = FALSE
    /\ ai = NoAnswer
    /\ merged = EmptyRecord
    /\ enriched = EmptyRecord
    /\ row \in {NoRow, OldRow}

\* a source client pushes one extracted entry, while the task has met fewer than
\* limit
Push(src, f, x, limit) ==
    /\ dPc = "scrape"
    /\ src \notin failedSources
    /\ Met < limit
    /\ partial' = [partial EXCEPT ![src][f] = Append(@, x)]
    /\ UNCHANGED <<driver, driverVars, pRetryVars, retryVars, clinicDataVars, dPc, failedSources, newsRaw, newsError,
                   ai, merged, enriched, row>>

Extract(src, f, x) == Push(src, f, x, MaxEntries)

ScrapePlannedParenthood ==
    \/ \E f \in {"restrictions", "requirements"}, x \in Strs : Extract("pp", f, x)
    \/ \E u \in Updates : Extract("pp", "recentUpdates", u)

ScrapeACLU == \E x \in Strs : Extract("aclu", "restrictions", x)

\* text.includes('required') || text.includes('must')
IsRequirement(text) == text = RequirementText
ScrapeGuttmacher ==
    \E text \in Strs \cup {RequirementText} :
        Extract("guttmacher", IF IsRequirement(text) THEN "requirements" ELSE "restrictions", text)

\* one entry per matching anchor of the page
ScrapeStateGovernmentSite == \E d \in Docs : Extract("stateGov", "officialDocuments", d)

\* the fetch of a source client throws: the client logs and returns {}
SourceFails(src) ==
    /\ dPc = "scrape"
    /\ src \in FetchingSources \ failedSources
    /\ partial[src] = EmptyPartial
    /\ Met < MaxEntries
    /\ failedSources' = failedSources \cup {src}
    /\ UNCHANGED <<driver, driverVars, pRetryVars, retryVars, clinicDataVars, dPc, partial, newsRaw, newsError, ai,
                   merged, enriched, row>>

\* Promise.all has resolved: the task builds the merged record
MergeSources ==
    /\ dPc = "scrape"
    /\ dPc' = "merged"
    /\ merged' = mergedData
    /\ UNCHANGED <<driver, driverVars, pRetryVars, retryVars, clinicDataVars, partial, failedSources, newsRaw, newsError,
                   ai, enriched, row>>

\* scrapeNewsArticles pushes one article
NewsPush ==
    /\ dPc = "merged"
    /\ ~newsError
    /\ Met < MaxEntries
    /\ \E a \in Articles : newsRaw' = Append(newsRaw, a)
    /\ UNCHANGED <<driver, driverVars, pRetryVars, retryVars, clinicDataVars, dPc, partial, failedSources, newsError, ai,
                   merged, enriched, row>>

\* a later fetch of scrapeNewsArticles throws
NewsFails ==
    /\ dPc = "merged"
    /\ ~newsError
    /\ Met < MaxEntries
    /\ newsError' = TRUE
    /\ UNCHANGED <<driver, driverVars, pRetryVars, retryVars, clinicDataVars, dPc, partial, failedSources, newsRaw, ai,
                   merged, enriched, row>>

AiItems(f) ==
    CASE f \in {"restrictions", "requirements"} -> AiStrs
      [] f = "recentUpdates" -> Updates
      [] f = "newsArticles" -> Articles
      [] f = "emergencyContacts" -> AiContacts
      [] f = "officialDocuments" -> Docs

\* the completion service: the call throws, or its content is not JSON
AiFails ==
    /\ dPc = "merged"
    /\ ai = NoAnswer
    /\ \E o \in {"callFails", "badJson"} : ai' = [ai EXCEPT !.outcome = o]
    /\ UNCHANGED <<driver, driverVars, pRetryVars, retryVars, clinicDataVars, dPc, partial, failedSources, newsRaw,
                   newsError, merged, enriched, row>>

\* the answer carries one more item in a list field
AiItem ==
    /\ dPc = "merged"
    /\ ai.outcome = "json"
    /\ Met < MaxEntries
    /\ \E f \in AiListFields :
         /\ ai.lists[f].kind \in {"absent", "list"}
         /\ \E x \in AiItems(f) :
              ai' = [ai EXCEPT !.lists[f] = [kind |-> "list", items |-> Append(@.items, x),
                                             text |-> ""]]
    /\ UNCHANGED <<driver, driverVars, pRetryVars, retryVars, clinicDataVars, dPc, partial, failedSources, newsRaw,
                   newsError, merged, enriched, row>>

\* the answer carries a string, or a value that is neither list nor string, in
\* a field of strings
AiMistyped ==
    /\ dPc = "merged"
    /\ ai.outcome = "json"
    /\ Met < MaxEntries
    /\ \E f \in {"restrictions", "requirements"} :
         /\ ai.lists[f].kind = "absent"
         /\ \/ \E s \in AiTexts :
                 ai' = [ai EXCEPT !.lists[f] = [kind |-> "string", items |-> <<>>, text |-> s]]
            \/ ai' = [ai EXCEPT !.lists[f] = [kind |-> "other", items |-> <<>>, text |-> ""]]
    /\ UNCHANGED <<driver, driverVars, pRetryVars, retryVars, clinicDataVars, dPc, partial, failedSources, newsRaw,
                   newsError, merged, enriched, row>>

AiNotes ==
    /\ dPc = "merged"
    /\ ai.outcome = "json"
    /\ ai.additionalNotes = ""
    /\ Met < MaxEntries
    /\ ai' = [ai EXCEPT !.additionalNotes = "AI note"]
    /\ UNCHANGED <<driver, driverVars, pRetryVars, retryVars, clinicDataVars, dPc, partial, failedSources, newsRaw,
                   newsError, merged, enriched, row>>

\* generateAIEnhancedLegalInfo returns
Enrich ==
    /\ dPc = "merged"
    /\ dPc' = "enriched"
    /\ enriched' = generateAIEnhancedLegalInfo(merged)
    /\ UNCHANGED <<driver, driverVars, pRetryVars, retryVars, clinicDataVars, partial, failedSources, newsRaw, newsError,
                   ai, merged, row>>

\* findFirst, then update or insert; an error of the database ends the task
\* the row after db.update(...).set({...}) where a row exists, after
\* db.insert(...).values({...}) where none does
storedRowMutant(existing, rec) ==
    [present |-> TRUE, rec |-> rec, effectiveDate |-> "now", lastVerified |-> "now",
     inserts |-> existing.inserts + 1, updates |-> existing.updates]
storedRow(existing, rec) ==
    IF existing.present
    THEN [existing EXCEPT !.rec = [rec EXCEPT !.state = existing.rec.state],
                          !.lastVerified = "now", !.updates = @ + 1]
    ELSE [present |-> TRUE, rec |-> rec, effectiveDate |-> "now", lastVerified |-> "now",
          inserts |-> existing.inserts + 1, updates |-> existing.updates]

Upsert ==
    /\ dPc = "enriched"
    /\ \E dbOk \in BOOLEAN :
         IF ~dbOk THEN dPc' = "failed" /\ row' = row
         ELSE dPc' = "stored" /\ row' = storedRow(row, enriched)
    /\ UNCHANGED <<driver, driverVars, pRetryVars, retryVars, clinicDataVars, partial, failedSources, newsRaw, newsError,
                   ai, merged, enriched>>

DataNext ==
    \/ ScrapePlannedParenthood
    \/ ScrapeACLU
    \/ ScrapeGuttmacher
    \/ ScrapeStateGovernmentSite
    \/ \E src \in Sources : SourceFails(src)
    \/ MergeSources
    \/ NewsPush
    \/ NewsFails
    \/ AiFails
    \/ AiItem
    \/ AiMistyped
    \/ AiNotes
    \/ Enrich
    \/ Upsert
DataSpec == DataInit /\ [][DataNext]_vars

(***************************************************************************)
(* generateAIEnhancedLegalInfo on its own: scrapedData is drawn from the    *)
(* values its parameter type Partial<StateLegalInfo> admits, among them     *)
(* records that carry additionalNotes.                                      *)
(***************************************************************************)
SourceNotes == {"", "source note"}
ScrapedData ==
    {[EmptyRecord EXCEPT !.state = theState, !.restrictions = r, !.additionalNotes = n,
                         !.emergencyContacts = hotlines] :
        r \in SeqsUpTo({"A", "B"}, 1), n \in SourceNotes}

EnrichInit ==
    /\ driver = "none"
    /\ cPc = "off"
    /\ cState = ""
    /\ clinicsFound = <<>>
    /\ toStore = <<>>
    /\ clinicTable = <<>>
    /\ notYetPushed = 0
    /\ DriversIdle
    /\ PRetryIdle
    /\ RetryIdle
    /\ dPc = "merged"
    /\ partial = [src \in Sources |-> EmptyPartial]
    /\ failedSources = {}
    /\ newsRaw = <<>>
    /\ newsError = FALSE
    /\ ai = NoAnswer
    /\ merged \in ScrapedData
    /\ enriched = EmptyRecord
    /\ row = NoRow

EnrichNext ==
    \/ NewsPush
    \/ NewsFails
    \/ AiFails
    \/ AiItem
    \/ AiMistyped
    \/ AiNotes
    \/ Enrich
EnrichSpec == EnrichInit /\ [][EnrichNext]_vars

(***************************************************************************)
(* The merge of the string lists on its own, with longer lists: only the   *)
(* clients that extract texts (Planned Parenthood, ACLU, Guttmacher) push.  *)
(***************************************************************************)
MaxTexts == 4
TextSources == {"pp", "aclu", "guttmacher"}
TextFields(src) ==
    IF src = "pp" THEN {"restrictions", "requirements"} ELSE {"restrictions"}
ScrapeTexts ==
    \/ \E src \in {"pp", "aclu"}, x \in Strs :
         \E f \in TextFields(src) : Push(src, f, x, MaxTexts)
    \/ \E text \in Strs \cup {RequirementText} :
         Push("guttmacher", IF IsRequirement(text) THEN "requirements" ELSE "restrictions",
              text, MaxTexts)
MergeNext == ScrapeTexts \/ MergeSources
MergeSpec == DataInit /\ [][MergeNext]_vars

(***************************************************************************)
(* One clinic task with its data: fetchClinicsFromAPI collects the clinics *)
(* of the Planned Parenthood API and of the scraped pages, filters and      *)
(* de-duplicates them; the task substitutes the fallback and stores.       *)
(***************************************************************************)
\* the API results and page elements one task meets
MaxElements == 2

ClinicStates == {"California", "Alaska"}
ClinicFallbackStates == {"California"}
PlaceholderName == "Planned Parenthood Health Center"
PlaceholderPhone == "Contact clinic for phone number"
NoCoordinates == "none"

\* fallbackClinics[state]: the canned clinics, which carry no coordinates
fallbackClinicData(s) ==
    IF s \in ClinicFallbackStates
    THEN <<[name |-> "Planned Parenthood - San Francisco Health Center",
            address |-> "1522 Bush Street, San Francisco, CA 94109",
            state |-> s, phone |-> "(415) 922-6789", coordinates |-> NoCoordinates],
           [name |-> "Planned Parenthood - Oakland Health Center",
            address |-> "1682 7th Street, Oakland, CA 94607",
            state |-> s, phone |-> "(510) 300-3800", coordinates |-> NoCoordinates]>>
    ELSE <<>>

ClinicDataInit ==
    /\ driver = "none"
    /\ DriversIdle
    /\ PRetryIdle
    /\ RetryIdle
    /\ dPc = "off"
    /\ partial = [src \in Sources |-> EmptyPartial]
    /\ failedSources = {}
    /\ newsRaw = <<>>
    /\ newsError = FALSE
    /\ ai = NoAnswer
    /\ merged = EmptyRecord
    /\ enriched = EmptyRecord
    /\ row = NoRow
    /\ cPc = "fetch"
    /\ cState \in ClinicStates
    /\ clinicsFound = <<>>
    /\ toStore = <<>>
    /\ clinicTable = <<>>
    /\ notYetPushed = 0

\* String.prototype.toLowerCase on the spellings of a state the API may send,
\* and the all-capitals spelling of a state's name
toLowerCase(s) ==
    CASE s \in {"California", "CALIFORNIA"} -> "california"
      [] s \in {"Alaska", "ALASKA"} -> "alaska"
      [] s = "CA" -> "ca"
      [] OTHER -> s
toUpperCase(s) ==
    CASE s = "California" -> "CALIFORNIA"
      [] s = "Alaska" -> "ALASKA"
      [] OTHER -> s

\* geocodeAddress: the coordinates, or null when the service has no result or fails
geocodeAddress(ok) == IF ok THEN "lat,lon" ELSE NoCoordinates

\* fetchPlannedParenthoodClinics builds one clinic from an API result and its
\* detail, which here always hold the parts of the address; an absent name or
\* phone is replaced by a placeholder
PlannedParenthoodClinic ==
    /\ cPc = "fetch"
    /\ Len(clinicsFound) + notYetPushed < MaxElements
    /\ \E name \in {"n1", ""}, st \in {cState, toUpperCase(cState), "CA", ""},
          phone \in {"p1", ""}, geocoded \in BOOLEAN :
         clinicsFound' = Append(clinicsFound,
             [name |-> IF name # "" THEN name ELSE PlaceholderName,
              address |-> "a1",
              state |-> st,
              phone |-> IF phone # "" THEN phone ELSE PlaceholderPhone,
              coordinates |-> geocodeAddress(geocoded)])
    /\ UNCHANGED <<driver, driverVars, pRetryVars, retryVars, dataVars, cPc, cState, toStore, clinicTable, notYetPushed>>

\* $(...).each(async (_, elem) => {... await geocodeAddress(address); clinics.push(...)}):
\* each() does not await the callback, so scrapeClinicWebsite returns while the
\* callbacks wait for their geocoding; a clinic is pushed before the copy only
\* if its geocoding ended while another page was still being fetched (inTime)
\* scrapeClinicWebsite meets one element of a page.  Its callback is async and
\* is not awaited: the clinic is in the returned list only if its geocoding
\* ended before fetchClinicsFromAPI copied the list
ScrapedClinic ==
    /\ cPc = "fetch"
    /\ Len(clinicsFound) + notYetPushed < MaxElements
    /\ \E name \in {"n1", ""}, address \in {"a1", "a2", ""}, phone \in {"p1", ""},
          geocoded \in BOOLEAN, inTime \in BOOLEAN :
         /\ name # "" /\ address # ""
         /\ IF inTime
            THEN /\ clinicsFound' = Append(clinicsFound,
                        [name |-> name, address |-> address, state |-> cState,
                         phone |-> IF phone # "" THEN phone ELSE PlaceholderPhone,
                         coordinates |-> geocodeAddress(geocoded)])
                 /\ UNCHANGED notYetPushed
            ELSE /\ notYetPushed' = notYetPushed + 1
                 /\ UNCHANGED clinicsFound
    /\ UNCHANGED <<driver, driverVars, pRetryVars, retryVars, dataVars, cPc, cState, toStore, clinicTable>>

\* clinic.state.toLowerCase() === state.toLowerCase()
sameStateMutant(a, b) == TRUE
sameState(a, b) == toLowerCase(a) = toLowerCase(b)

\* clinics.filter(c => c.name && c.address && c.state.toLowerCase() === state.toLowerCase())
RECURSIVE FilterValid(_, _)
FilterValid(s, st) ==
    IF s = <<>> THEN <<>>
    ELSE IF Head(s).name # "" /\ Head(s).address # "" /\ sameState(Head(s).state, st)
         THEN <<Head(s)>> \o FilterValid(Tail(s), st)
         ELSE FilterValid(Tail(s), st)

\* Array.from(new Map(list.map(c => [c.name + c.address, c])).values())
ClinicKey(c) == c.name \o c.address
RECURSIVE UniqueClinics(_, _)
UniqueClinics(s, n) ==
    IF n = 0 THEN <<>>
    ELSE LET init == UniqueClinics(s, n - 1)
         IN  IF \E i \in 1..(n-1) : ClinicKey(s[i]) = ClinicKey(s[n]) THEN init
             ELSE Append(init,
                    s[CHOOSE i \in 1..Len(s) :
                        /\ ClinicKey(s[i]) = ClinicKey(s[n])
                        /\ \A j \in (i+1)..Len(s) : ClinicKey(s[j]) # ClinicKey(s[n])])

\* what fetchClinicsFromAPI returns: a clinic without a state makes the filter
\* throw, and the catch returns []
fetchClinicsFromAPI ==
    IF \E i \in 1..Len(clinicsFound) : clinicsFound[i].state = "" THEN <<>>
    ELSE LET validClinics == FilterValid(clinicsFound, cState)
         IN  UniqueClinics(validClinics, Len(validClinics))

\* the task takes the fetched clinics, or the fallback when there are none
TakeClinics ==
    /\ cPc = "fetch"
    /\ LET fetched == fetchClinicsFromAPI
           clinicData == IF Len(fetched) = 0 /\ cState \in ClinicFallbackStates
                         THEN fallbackClinicData(cState) ELSE fetched
       IN  /\ toStore' = clinicData
           /\ cPc' = IF Len(clinicData) = 0 THEN "done" ELSE "store"
    /\ UNCHANGED <<driver, driverVars, pRetryVars, retryVars, dataVars, cState, clinicsFound, clinicTable, notYetPushed>>

\* one round of the store loop: look the name up, insert if no row has it; an
\* error of the database is caught and the loop goes on
StoreClinic ==
    /\ cPc = "store"
    /\ toStore # <<>>
    /\ \E dbOk \in BOOLEAN :
         LET clinic == Head(toStore)
             existing == {i \in 1..Len(clinicTable) : clinicTable[i].name = clinic.name}
         IN  clinicTable' = IF dbOk /\ insertsClinic(existing # {})
                            THEN Append(clinicTable, clinic) ELSE clinicTable
    /\ toStore' = Tail(toStore)
    /\ UNCHANGED <<driver, driverVars, pRetryVars, retryVars, dataVars, cPc, cState, clinicsFound, notYetPushed>>

StoreDone ==
    /\ cPc = "store"
    /\ toStore = <<>>
    /\ cPc' = "done"
    /\ UNCHANGED <<driver, driverVars, pRetryVars, retryVars, dataVars, cState, clinicsFound, toStore,
                   clinicTable, notYetPushed>>

ClinicDataNext ==
    \/ PlannedParenthoodClinic
    \/ ScrapedClinic
    \/ TakeClinics
    \/ StoreClinic
    \/ StoreDone
ClinicDataSpec == ClinicDataInit /\ [][ClinicDataNext]_vars

(***************************************************************************)
(* retryOperation on its own, for an operation that fails opFails times    *)
(* and then succeeds.                                                      *)
(***************************************************************************)
MaxFailures == 4
MaxAttemptsArg == 5

RetryInit ==
    /\ driver = "none"
    /\ DriversIdle
    /\ PRetryIdle
    /\ opFails \in 0..MaxFailures
    /\ maxAtt \in 1..MaxAttemptsArg
    /\ rAttempt = 1
    /\ invoked = 0
    /\ rPc = "try"
    /\ rThrown = 0
    /\ DataIdle

\* `return await operation()` and the catch clause
RetryInvoke ==
    /\ rPc = "try"
    /\ invoked' = invoked + 1
    /\ IF invoked + 1 > opFails
       THEN /\ rPc' = "returned"
            /\ UNCHANGED <<rAttempt, rThrown>>
       ELSE LET step == retryStep(rAttempt, maxAtt)
            IN  /\ rPc' = IF step = "rethrow" THEN "thrown" ELSE "delay"
                /\ rThrown' = IF step = "rethrow" THEN invoked + 1 ELSE rThrown
                /\ UNCHANGED rAttempt
    /\ UNCHANGED <<driver, driverVars, pRetryVars, dataVars, clinicDataVars, opFails, maxAtt>>

\* the delay is over: attempt++ and the loop condition
RetryDelay ==
    /\ rPc = "delay"
    /\ rAttempt' = rAttempt + 1
    /\ IF rAttempt + 1 <= maxAtt
       THEN /\ rPc' = "try"
            /\ UNCHANGED rThrown
       ELSE /\ rPc' = "thrown"
            /\ rThrown' = -1
    /\ UNCHANGED <<driver, driverVars, pRetryVars, dataVars, clinicDataVars, opFails, maxAtt, invoked>>

RetryNext == RetryInvoke \/ RetryDelay
RetrySpec == RetryInit /\ [][RetryNext]_vars

\* C5: when retryOperation returns, the operation was invoked exactly opFails + 1
\* times and maxAttempts was at least that; when it throws, maxAttempts was at
\* most opFails, the operation was invoked exactly maxAttempts times and what is
\* thrown is the error of the last invocation; and it is never left waiting
RetryContract ==
    /\ rPc = "returned" => (invoked = opFails + 1 /\ maxAtt >= opFails + 1)
    /\ rPc = "thrown" => (invoked = maxAtt /\ rThrown = maxAtt /\ maxAtt <= opFails)
    /\ invoked <= maxAtt

\* C5 witness: the operation failed twice and the third invocation's value was returned
RetryContractWitness ==
    /\ rPc = "returned"
    /\ opFails = 2
    /\ invoked = 3

\* the two crawlers alone, every step of a call that was made being taken eventually:
\* each step is an awaited promise of the single-threaded event loop
(***************************************************************************)
(* The source clients of one legal task under pRetry:                      *)
(* Promise.all([pRetry(() => scrapeX(state), { retries: 2 }), ...]).        *)
(***************************************************************************)
retries == 2

\* how the promise of a source client settles: its body is one try/catch whose
\* catch logs the error and returns {}
clientSettlesAsMutant(fetchOk) == IF fetchOk THEN "fulfilled" ELSE "rejected"
clientSettlesAs(fetchOk) == "fulfilled"

\* pRetry after an invocation has settled: resolve with its value, or run the
\* operation again while retries are left, or reject
pRetryStep(made, settledAs) ==
    IF settledAs = "fulfilled" THEN "resolve"
    ELSE IF made <= retries THEN "retry" ELSE "reject"

PRetryInit ==
    /\ driver = "none"
    /\ DriversIdle
    /\ RetryIdle
    /\ DataIdle
    /\ invocations = [src \in Sources |-> 0]
    /\ clientPc = [src \in Sources |-> "pending"]
    /\ clientResult = [src \in Sources |-> "none"]

\* pRetry invokes the operation, which calls the source client
InvokeClient(src) ==
    /\ clientPc[src] = "pending"
    /\ invocations' = [invocations EXCEPT ![src] = @ + 1]
    /\ clientPc' = [clientPc EXCEPT ![src] = "running"]
    /\ UNCHANGED <<driver, driverVars, retryVars, dataVars, clinicDataVars, clientResult>>

\* the client's promise settles, after a fetch that worked or one that threw
\* (scrapeStateResources fetches nothing), and pRetry takes its step
ClientSettles(src) ==
    /\ clientPc[src] = "running"
    /\ \E fetchOk \in IF src \in FetchingSources THEN BOOLEAN ELSE {TRUE} :
         LET step == pRetryStep(invocations[src], clientSettlesAs(fetchOk))
         IN  /\ clientPc' = [clientPc EXCEPT ![src] =
                               CASE step = "resolve" -> "resolved"
                                 [] step = "retry" -> "pending"
                                 [] OTHER -> "rejected"]
             /\ clientResult' = [clientResult EXCEPT ![src] =
                                   IF step # "resolve" THEN @
                                   ELSE IF fetchOk THEN "partial" ELSE "empty"]
    /\ UNCHANGED <<driver, driverVars, retryVars, dataVars, clinicDataVars, invocations>>

PRetryNext == \E src \in Sources : InvokeClient(src) \/ ClientSettles(src)
PRetrySpec == PRetryInit /\ [][PRetryNext]_vars

CrawlerInit == Init /\ driver \in {"legal", "clinic"}
CrawlerStep ==
    \/ \E r \in Runs : Add(r)
    \/ \E r \in Runs : Settle(r)
    \/ \E r \in Runs : OnIdle(r)
    \/ \E r \in Runs : SourceResolves(r)
    \/ \E r \in Runs : LegalFetch(r)
    \/ \E r \in Runs : LegalEnrich(r)
    \/ \E r \in Runs : LegalFind(r)
    \/ \E r \in Runs : LegalWrite(r)
    \/ \E r \in Runs : ClinicFetch(r)
    \/ \E r \in Runs : ClinicFind(r)
    \/ \E r \in Runs : ClinicInsert(r)
    \/ \E r \in Runs : ClinicStored(r)
    \/ \E r \in Runs : Respond(r)
CrawlerNext == (\E r \in Runs : Call(r)) \/ CrawlerStep
CrawlerSpec == CrawlerInit /\ [][CrawlerNext]_vars /\ WF_vars(CrawlerStep)

(***************************************************************************)
(* Properties of the drivers and the queue.                                *)
(***************************************************************************)
AllStates == [i \in 1..NumStates |-> i]
IsPrefix(p, q) == Len(p) <= Len(q) /\ \A i \in 1..Len(p) : p[i] = q[i]

\* C1: in each of the three drivers a call processes the states in the order of
\* `states`, each at most once, and a call that has ended has processed every
\* state exactly once, whatever the outcome (DONE or FAILED) of the other states
FailureIsolation ==
    \A r \in Runs :
        /\ IsPrefix(order[r], AllStates)
        /\ runPc[r] = "resolved" => order[r] = AllStates

\* C1 witness: a call has ended, its first state failed and its last state was
\* processed nonetheless
FailureIsolationWitness ==
    \E r \in Runs :
        /\ runPc[r] = "resolved"
        /\ outcome[r][1] = "FAILED"
        /\ outcome[r][NumStates] = "DONE"

\* C2: a crawler call that was made eventually resolves, and when it has resolved
\* every one of its per-state tasks has finished, succeeded or failed
PipelineCompletion ==
    /\ \A r \in Runs : (runPc[r] # "notCalled") ~> (runPc[r] = "resolved")
    /\ [](\A r \in Runs : runPc[r] = "resolved" =>
            /\ taskPc[r] = "none"
            /\ \A s \in States : outcome[r][s] \in {"DONE", "FAILED"})

\* C2 witness: a crawler call has resolved with every state failed
PipelineCompletionWitness ==
    \E r \in Runs :
        /\ runPc[r] = "resolved"
        /\ \A s \in States : outcome[r][s] = "FAILED"

\* C3: at most `concurrency` tasks of a queue are running at any time, also when
\* two calls of the crawler overlap
ConcurrencyBound == Cardinality(Running) <= concurrency

\* C3 witness: two calls overlap, one has a task running and the other's task waits
ConcurrencyBoundWitness ==
    /\ Cardinality(Running) = 1
    /\ qQueue # <<>>

\* C4: at every task start at least the queue's interval has passed since the
\* previous task start
StartSpacing == lastGap >= interval

\* C6: an attempt of generateClinicData that is given up because its batch held a
\* record that is not well formed has inserted none of the batch's records
NoPartialBatch ==
    (taskPc[1] = "attemptFailed" /\ invalidCount > 0) => batchInserted = 0

\* C7: at most three completion calls are made per state, a call of
\* generateClinicData that has ended has gone through every state, and so made
\* at most 3 * |states| completion calls in all
RECURSIVE SumCalls(_)
SumCalls(n) == IF n = 0 THEN 0 ELSE calls[n] + SumCalls(n - 1)
AttemptCeiling ==
    /\ \A s \in States : calls[s] <= defaultMaxAttempts
    /\ attempt <= defaultMaxAttempts
    /\ (driver = "generate" /\ runPc[1] = "resolved") =>
          /\ order[1] = AllStates
          /\ SumCalls(NumStates) <= defaultMaxAttempts * NumStates

\* C7 witness: every attempt of a state failed, the state was skipped and a later
\* state was generated
AttemptCeilingWitness ==
    /\ driver = "generate"
    /\ runPc[1] = "resolved"
    /\ calls[1] = defaultMaxAttempts
    /\ outcome[1][1] = "FAILED"
    /\ outcome[1][NumStates] = "DONE"

(***************************************************************************)
(* Properties of the enrichment and the merge.                             *)
(***************************************************************************)
Enriched == dPc \in {"enriched", "stored", "failed"}

\* C8: whatever the completion service returns, every list field of the record
\* generateAIEnhancedLegalInfo returns contains every entry that the same list
\* field of the merged record it was given holds.
EnrichmentKeepsEntries ==
    Enriched => \A f \in ListFields : Range(merged[f]) \subseteq Range(enriched[f])

\* the service answered with a list of its own for a field the merged record
\* had entries in, and both are in the result
EnrichmentKeepsEntriesWitness ==
    /\ Enriched
    /\ ai.outcome = "json"
    /\ \A f \in AiListFields : ~SpreadThrows(ai.lists[f])
    /\ merged.restrictions # <<>>
    /\ ai.lists["restrictions"].kind = "list"
    /\ Range(ai.lists["restrictions"].items) \cap Range(merged.restrictions) = {}
    /\ Len(enriched.restrictions) > Len(merged.restrictions)

\* C9: when the completion call fails, its body is not JSON, or a list field of
\* the parsed answer is not a list, generateAIEnhancedLegalInfo returns exactly
\* the merged record it was given.
EnrichmentBestEffort ==
    (/\ Enriched
     /\ \/ ai.outcome # "json"
        \/ \E f \in AiListFields : ai.lists[f].kind \in {"string", "other"})
        => enriched = merged

NoDuplicates(s) == \A i, j \in 1..Len(s) : s[i] = s[j] => i = j
NoDuplicateUrls(s) == \A i, j \in 1..Len(s) : s[i].url = s[j].url => i = j

\* C10: each list field of the merged record holds every entry once: no string
\* twice in restrictions, requirements and sourceUrls, no URL twice in
\* officialDocuments and legalResources.
MergeDeduplicated ==
    dPc # "scrape" =>
        /\ NoDuplicates(merged.restrictions)
        /\ NoDuplicates(merged.requirements)
        /\ NoDuplicates(merged.sourceUrls)
        /\ NoDuplicateUrls(merged.officialDocuments)
        /\ NoDuplicates(merged.legalResources)

(***************************************************************************)
(* Properties of the merge order, the date order and the upsert.           *)
(***************************************************************************)
FirstIndex(s, x) == CHOOSE i \in 1..Len(s) : s[i] = x /\ \A j \in 1..(i-1) : s[j] # x
\* t holds each entry of s once, in the order of the first occurrences in s
KeepsFirstOccurrences(s, t) ==
    /\ Range(t) = Range(s)
    /\ \A i, j \in 1..Len(t) : i < j => FirstIndex(s, t[i]) < FirstIndex(s, t[j])
restrictionsInOrder ==
    Concat(<<partial["pp"].restrictions, partial["aclu"].restrictions,
             partial["guttmacher"].restrictions, partial["kff"].restrictions,
             partial["nwlc"].restrictions>>)
requirementsInOrder ==
    Concat(<<partial["pp"].requirements, partial["guttmacher"].requirements,
             partial["kff"].requirements, partial["nwlc"].requirements>>)

\* C11: the merged restrictions and requirements are the partials' lists
\* concatenated in the fixed source order with the first occurrence of each
\* entry kept; ["A","B"] from Planned Parenthood and ["B","C"] from the ACLU
\* merge to ["A","B","C"].
MergeOrder ==
    dPc = "merged" =>
        /\ KeepsFirstOccurrences(restrictionsInOrder, merged.restrictions)
        /\ KeepsFirstOccurrences(requirementsInOrder, merged.requirements)
        /\ (/\ partial["pp"].restrictions = <<"A", "B">>
            /\ partial["aclu"].restrictions = <<"B", "C">>
            /\ partial["guttmacher"].restrictions = <<>>)
               => merged.restrictions = <<"A", "B", "C">>

MergeOrderWitness ==
    /\ dPc = "merged"
    /\ partial["pp"].restrictions = <<"A", "B">>
    /\ partial["aclu"].restrictions = <<"B", "C">>
    /\ merged.restrictions = <<"A", "B", "C">>

\* an entry with an unparseable date counts as more recent than every date
Recency(e) == IF e.date = Unparseable THEN 3 ELSE e.date
LatestFirst(s) == \A i, j \in 1..Len(s) : i < j => Recency(s[i]) >= Recency(s[j])

\* C12: recentUpdates of the merged record, and recentUpdates and newsArticles
\* of the enriched record, are sorted latest first, an entry whose date cannot
\* be parsed being placed as the most recent.
DateOrdering ==
    /\ dPc # "scrape" => LatestFirst(merged.recentUpdates)
    /\ Enriched => LatestFirst(enriched.recentUpdates) /\ LatestFirst(enriched.newsArticles)

\* C13: a task that stores its record where a row of the state exists performs
\* one update and no insert, replaces the stored list fields with the record's
\* and refreshes lastVerified; where no row exists it performs exactly one
\* insert, which carries the state, an effectiveDate and a lastVerified stamp.
LegalUpsert ==
    [][(dPc = "enriched" /\ dPc' = "stored") =>
          IF row.present
          THEN /\ row'.updates = row.updates + 1
               /\ row'.inserts = row.inserts
               /\ \A f \in ListFields : row'.rec[f] = enriched[f]
               /\ row'.lastVerified = "now"
               /\ row'.present
          ELSE /\ row'.inserts = row.inserts + 1
               /\ row'.updates = row.updates
               /\ row'.present
               /\ row'.rec = enriched
               /\ row'.rec.state = theState
               /\ row'.effectiveDate = "now"
               /\ row'.lastVerified = "now"]_vars

\* a row that existed was updated, and its list fields were replaced
LegalUpsertWitness ==
    /\ dPc = "stored"
    /\ row.updates = 1
    /\ row.inserts = 0
    /\ row.effectiveDate = "before"
    /\ row.rec.restrictions # OldRow.rec.restrictions

(***************************************************************************)
(* Properties of the clinic pipelines and of the endpoints.                *)
(***************************************************************************)
\* C14: startClinicCrawler writes no clinic whose name a stored row already has:
\* every write adds the first row of its name, so a later run over stored names
\* inserts nothing and no two stored clinics share a name.
ClinicIdempotent ==
    [][driver = "clinic" =>
          \A n \in ClinicNames :
              clinicRows'[n] # clinicRows[n] => clinicRows[n] = 0 /\ clinicRows'[n] = 1]_vars

\* one call has ended and has stored a clinic; the task of the other call has
\* looked the same name up and found the row
ClinicIdempotentWitness ==
    /\ driver = "clinic"
    /\ \E r \in Runs, q \in Runs :
         /\ runPc[q] = "resolved"
         /\ taskPc[r] = "insert"
         /\ taskFound[r]
         /\ clinicRows[Head(clinicList[r])] = 1

\* no source client extracted anything for the state
NothingLive == \A src \in FetchingSources : partial[src] = EmptyPartial

\* C15: when all live sources yield nothing for a state that has a canned
\* fallback record, the record the task persists is the canned record.
FallbackSubstitution ==
    (dPc = "stored" /\ NothingLive /\ theState \in LegalFallbackStates)
        => \A f \in ListFields : row.rec[f] = fallbackLegalInfo(theState)[f]

Complete(c) ==
    /\ c.name \notin {"", PlaceholderName}
    /\ c.address # ""
    /\ c.phone \notin {"", PlaceholderPhone}
    /\ c.coordinates # NoCoordinates

\* C16: every clinic row the clinic crawler has written has a name, an address,
\* a phone number and coordinates of its own, none missing or a placeholder.
ClinicCompleteness == \A i \in 1..Len(clinicTable) : Complete(clinicTable[i])

\* C17: a start endpoint sends its acknowledgement when the call has reached
\* its first await, before any state of the call has finished, and the call
\* still goes on to submit and process every state and resolves.
FireAndForget ==
    /\ [][\A r \in Runs :
            (response[r] = NoResponse /\ response'[r].status = "started")
                => /\ \A s \in States : outcome'[r][s] = "PENDING"
                   /\ runPc'[r] = "awaitAdd"]_vars
    /\ \A r \in Runs :
         [](response[r].status = "started"
               => <>(runPc[r] = "resolved" /\ order[r] = AllStates))

FireAndForgetWitness ==
    \E r \in Runs :
        /\ endpoint[r] = "start"
        /\ response[r].status = "started"
        /\ runPc[r] = "resolved"
        /\ order[r] = AllStates

\* C18: a populate or generate endpoint sends its response only when the call
\* has resolved and every state of the call has finished, and the count it
\* returns is the number of rows the table holds at that time.
SynchronousPopulate ==
    [][\A r \in Runs :
          (response'[r] # response[r] /\ endpoint[r] = "populate")
              => /\ runPc[r] = "resolved"
                 /\ taskPc[r] = "none"
                 /\ \A s \in States : outcome[r][s] \in {"DONE", "FAILED"}
                 /\ response'[r].status = "ok" => response'[r].count = TotalRows]_vars

SynchronousPopulateWitness ==
    \E r \in Runs :
        /\ endpoint[r] = "populate"
        /\ response[r].status = "ok"
        /\ response[r].count > 0
        /\ response[r].count = TotalRows

\* C19: no call of a driver rejects because states failed; an awaiting endpoint
\* answers 500 only when its own read of the table failed, and otherwise with
\* the success message and the count, whatever the states' outcomes.
FailuresNotSurfaced ==
    \A r \in Runs :
        /\ runPc[r] # "rejected"
        /\ response[r].status = "error" => response[r].logged = "findMany failed"
        /\ (endpoint[r] = "populate" /\ response[r].status \notin {"none", "error"})
               => response[r].status = "ok"

\* every state of the call failed and the endpoint answered with the count
FailuresNotSurfacedWitness ==
    \E r \in Runs :
        /\ endpoint[r] = "populate"
        /\ \A s \in States : outcome[r][s] = "FAILED"
        /\ response[r].status = "ok"

\* the moves of a legal-info task from step to step
LegalMoves ==
    {<<"none", "fetch">>, <<"none", "queued">>, <<"queued", "fetch">>, <<"fetch", "enrich">>,
     <<"enrich", "find">>, <<"find", "write">>, <<"find", "settle">>, <<"write", "settle">>,
     <<"settle", "none">>}

\* C20: a legal-info task goes through fetch, merge and enrichment, lookup and
\* write in this order: the merge and the call of the enrichment come only when
\* all seven source-client calls have resolved, the lookup only when the
\* enrichment has returned, and a task that failed takes no further step.
StepOrder ==
    [][driver = "legal" =>
          \A r \in Runs :
              /\ taskPc'[r] # taskPc[r] => <<taskPc[r], taskPc'[r]>> \in LegalMoves
              /\ (taskPc[r] = "fetch" /\ taskPc'[r] = "enrich")
                     => sourcesResolved[r] = Cardinality(Sources)
              /\ \A s \in States :
                     (outcome[r][s] # "FAILED" /\ outcome'[r][s] = "FAILED")
                         => taskPc'[r] = "settle"]_vars

\* a task has gone through all steps for one state, and the lookup failed for
\* the next, which went straight to the end
StepOrderWitness ==
    /\ driver = "legal"
    /\ \E r \in Runs :
         /\ outcome[r][1] = "DONE"
         /\ outcome[r][2] = "FAILED"
         /\ taskPc[r] = "settle"
         /\ legalRows[1] = 1

(***************************************************************************)
(* Further properties of the enrichment.                                   *)
(***************************************************************************)
\* the completion answered with JSON whose fields could all be combined
EnrichmentSucceeded ==
    /\ Enriched
    /\ ai.outcome = "json"
    /\ \A f \in AiListFields : ~SpreadThrows(ai.lists[f])

\* C21: on a successful completion, in restrictions, requirements,
\* emergencyContacts and officialDocuments of the enriched record the entries
\* of the merged record come first and the AI's entries after them.
SourcesBeforeAi ==
    EnrichmentSucceeded =>
        \A f \in {"restrictions", "requirements", "emergencyContacts", "officialDocuments"} :
            IsPrefix(merged[f], enriched[f])

KeysUnique(rec) ==
    /\ NoDuplicates(rec.restrictions)
    /\ NoDuplicates(rec.requirements)
    /\ NoDuplicateUrls(rec.officialDocuments)
    /\ NoDuplicateUrls(rec.newsArticles)

\* C23: after enrichment no list field of the persisted record holds two
\* entries with the same key (the string for restrictions and requirements,
\* the URL for officialDocuments and newsArticles), whatever the AI returned;
\* stated for merged records that are themselves free of duplicates.
PersistedDeduplicated ==
    (dPc = "stored" /\ KeysUnique(merged)) => KeysUnique(row.rec)

(***************************************************************************)
(* Retries and writes.                                                     *)
(***************************************************************************)
\* control is inside an operation handed to retryOperation (the body of the
\* attempt of generateClinicData) or to pRetry (the source clients of a legal
\* task)
UnderRetry ==
    \/ driver = "generate" /\ taskPc[1] \in {"call", "records"}
    \/ driver = "legal" /\ \E r \in Runs : taskPc[r] = "fetch"

\* C24: no step taken inside an operation passed to retryOperation or pRetry
\* inserts or updates a row
NoWriteUnderRetry ==
    [][UnderRetry => (legalRows' = legalRows /\ clinicRows' = clinicRows /\ genRows' = genRows)]_vars

(***************************************************************************)
(* The list fetchClinicsFromAPI returns.                                   *)
(***************************************************************************)
\* no two clinics of the list have the same name and address, and each is of
\* the state st up to the case of the letters
CleanFor(s, st) ==
    /\ \A i, j \in 1..Len(s) :
         (s[i].name = s[j].name /\ s[i].address = s[j].address) => i = j
    /\ \A i \in 1..Len(s) : toLowerCase(s[i].state) = toLowerCase(st)

\* C25: the list fetchClinicsFromAPI returns, which the task goes on to store,
\* holds no two clinics with the same (name, address) key and only clinics
\* whose state is the requested state, compared without regard to case
FetchedListClean ==
    cPc \in {"store", "done"} => CleanFor(toStore, cState)

\* two fetched clinics share their key and differ in the case of their state,
\* and the one clinic returned for them is about to be stored
FetchedListCleanWitness ==
    /\ cPc = "store"
    /\ toStore = fetchClinicsFromAPI
    /\ Len(toStore) = 1
    /\ Len(clinicsFound) = 2
    /\ ClinicKey(clinicsFound[1]) = ClinicKey(clinicsFound[2])
    /\ clinicsFound[1].state # clinicsFound[2].state

(***************************************************************************)
(* A source client that fails.                                             *)
(***************************************************************************)
\* the source clients whose field f the task merges
MergedFrom(f) ==
    CASE f = "restrictions" -> {"pp", "aclu", "guttmacher", "kff", "nwlc"}
      [] f = "requirements" -> {"pp", "guttmacher", "kff", "nwlc"}
      [] f = "recentUpdates" -> {"pp", "kff", "nwlc"}
      [] f = "officialDocuments" -> {"stateGov", "kff"}

\* every entry of the clients that did not fail is in the record, and of the
\* source URLs exactly theirs
OthersMerged(rec) ==
    /\ \A f \in {"restrictions", "requirements", "recentUpdates", "officialDocuments"} :
         \A src \in MergedFrom(f) \ failedSources :
            Range(partial[src][f]) \subseteq Range(rec[f])
    /\ \A src \in UrlSources :
         (SourceUrl(src) \in Range(rec.sourceUrls)) <=> (src \notin failedSources)

\* C26: a source client whose fetch fails contributes nothing, the entries of
\* the other clients are still merged and persisted, and no step of the
\* fetching or merging makes the task fail
SingleSourceDegrades ==
    /\ [](dPc # "scrape" => OthersMerged(merged))
    /\ [](dPc = "stored" => OthersMerged(row.rec))
    /\ [][(dPc \in {"scrape", "merged"}) => (dPc' # "failed")]_vars

\* one client failed, another extracted an entry, and the record is stored
SingleSourceDegradesWitness ==
    /\ dPc = "stored"
    /\ failedSources # {}
    /\ \E src \in Sources \ failedSources : PartialLen(src) > 0

(***************************************************************************)
(* Overlapping runs of startLegalInfoCrawler.                              *)
(***************************************************************************)
\* C27: whatever runs of startLegalInfoCrawler were made, overlapping ones
\* included, the legal-info table holds at most one row per state, and what a
\* task found for its state still holds when it writes: no other task's find
\* or write comes between a task's find and its write
OneRowPerState ==
    /\ \A s \in States : legalRows[s] <= 1
    /\ driver = "legal" =>
         \A r \in Runs :
            taskPc[r] = "write" => (taskFound[r] <=> legalRows[TaskState(r)] > 0)

\* a task is about to update the row that the other run, still in progress,
\* inserted for the same state
OneRowPerStateWitness ==
    /\ driver = "legal"
    /\ \E r, q \in Runs :
         /\ r # q
         /\ taskPc[r] = "write"
         /\ taskFound[r]
         /\ legalRows[TaskState(r)] = 1
         /\ runPc[q] \in {"loop", "awaitAdd"}
         /\ TaskState(r) \in Range(order[q])

\* C28: when fetchClinicsFromAPI copies the lists scrapeClinicWebsite returned,
\* every listing element with a name and an address has its clinic in them:
\* none is pushed only after the copy
NoScrapedClinicLost ==
    cPc \in {"store", "done"} => notYetPushed = 0

\* C29: a state that generateClinicData reports as generated has had exactly
\* one full batch of rows inserted during the run, however many attempts were
\* needed, and a state it skipped has had none
ExactBatchPerState ==
    driver = "generate" =>
        \A s \in States :
            /\ outcome[1][s] = "DONE" => genRows[s] = BatchSize
            /\ outcome[1][s] = "FAILED" => genRows[s] = 0

(***************************************************************************)
(* The source clients under pRetry.                                        *)
(***************************************************************************)
\* C30: for one state of one run each of the seven source clients is invoked
\* exactly once, also when its fetch fails: no client is invoked a second
\* time, and each pRetry call resolves after its one invocation
SingleInvocation ==
    \A src \in Sources :
        /\ invocations[src] <= 1
        /\ clientPc[src] \notin {"off", "pending"} => invocations[src] = 1
        /\ clientPc[src] # "rejected"

\* all seven calls have resolved, one of them with the {} of a failed fetch
SingleInvocationWitness ==
    /\ \A src \in Sources : clientPc[src] = "resolved"
    /\ \E src \in Sources : clientResult[src] = "empty"

====
